---- MODULE Spec2Model ----
(***************************************************************************)
(* Model of winTermi-Change (terminalChange.py, safepoint.py): the         *)
(* settings patcher of WindowsTerminalProvider, the brightness helper, the *)
(* Pokemon Database, the comment remover and main().                       *)
(*                                                                         *)
(* Specifications:                                                         *)
(*   SpecProvider  sequences of set_background_image / clear on one file   *)
(*   SpecMain      one run of terminalChange.main(), step by step          *)
(*   SpecTwo       two provider operations with interleaved read / write   *)
(*   SpecCatalog   Database construction, get and list_names               *)
(*   SpecComment   comment_remover on texts built from known tokens        *)
(***************************************************************************)
EXTENDS Integers, Sequences, FiniteSets, TLC

VARIABLES
    file,      \* the settings.json file: missing, invalid text, or a JSON document
    disk,      \* the state of the image file behind ImgPath
    lastOp,    \* SpecProvider: the provider operation that ran last, its path and outcome
    prevOp,    \* SpecProvider: the operation before it
    before,    \* SpecProvider: the file as it was when the last operation started
    run,       \* SpecMain: the run of main(): inputs, program counter, locals, exit
    file0,     \* SpecMain: the file as it was when the run started
    procs,     \* SpecTwo: the two instances: operation, pc, the data each one read
    writes,    \* SpecTwo: the instances that wrote, in order, with what they wrote
    cat,       \* SpecCatalog: inputs (listing, Extra directory) and the Database built
    cres,      \* SpecCatalog: the last call on the Database and its result
    txt        \* SpecComment: the text, what it is made of, and comment_remover's output

vars == <<file, disk, lastOp, prevOp, before, run, file0, procs, writes, cat, cres, txt>>

Idle == "idle"

(***************************************************************************)
(* Bounds of the model.                                                    *)
(***************************************************************************)
MaxPixels == 2
MaxLines == 3
MaxSegs == 3

(***************************************************************************)
(* JSON objects are functions from keys to values; dict.pop and item       *)
(* assignment.                                                             *)
(***************************************************************************)
EmptyObj == [k \in {} |-> ""]

Pop(d, key) == [k \in (DOMAIN d) \ {key} |-> d[k]]

Put(d, key, v) == [k \in (DOMAIN d) \cup {key} |-> IF k = key THEN v ELSE d[k]]

\* Characters are one-character strings and texts (names, keys, file stems) are
\* sequences of them. A path is a directory, a file stem and a suffix; None and
\* the empty string are paths of their own.
None == [dir |-> "<None>", stem |-> <<>>, suffix |-> <<>>]
EmptyPath == [dir |-> "", stem |-> <<>>, suffix |-> <<>>]

\* Python truthiness of the path argument: None and "" are false.
Truthy(path) == path \notin {None, EmptyPath}

(***************************************************************************)
(* The image file and avg_luminance.                                       *)
(***************************************************************************)
\* The image of listing position 1: Images/Generation I - Kanto/001.jpg
ImgPath == [dir |-> "Images/Generation I - Kanto", stem |-> <<"0", "0", "1">>,
            suffix |-> <<".", "j", "p", "g">>]
OldPath == [dir |-> "C:/old", stem |-> <<"b", "g">>, suffix |-> <<".", "p", "n", "g">>]

\* RGB pixels: black, white, two greys around the midpoint, pure red, pure green.
Palette == {<<0, 0, 0>>, <<255, 255, 255>>, <<127, 127, 127>>, <<128, 128, 128>>,
            <<255, 0, 0>>, <<0, 255, 0>>}

Images == UNION {[1..n -> Palette] : n \in 1..MaxPixels}

\* disk: the file behind ImgPath is missing, exists but is no image, or is an image.
DiskStates == {[exists |-> FALSE, readable |-> FALSE, pixels |-> <<>>],
               [exists |-> TRUE, readable |-> FALSE, pixels |-> <<>>]}
              \cup {[exists |-> TRUE, readable |-> TRUE, pixels |-> im] : im \in Images}

\* Path(path).exists()
PathExists(path, d) == path = ImgPath /\ d.exists

\* Pillow's convert("L") of one RGB pixel (ITU-R 601-2 luma, 16-bit fixed point).
LumaScale == 65536
LumaRound == 32768
LumaR == 19595
LumaG == 38470
LumaB == 7471

ConvertL(px) == (px[1] * LumaR + px[2] * LumaG + px[3] * LumaB + LumaRound) \div LumaScale

RECURSIVE SumL(_)
SumL(pixels) ==
    IF pixels = <<>> THEN 0 ELSE ConvertL(Head(pixels)) + SumL(Tail(pixels))

FullScale == 255

\* avg_luminance(path) > 0.5, i.e. (sum / n) / 255.0 > 0.5, in exact arithmetic.
LumAtLeastHalf(pixels) == 2 * SumL(pixels) >= FullScale * Len(pixels)

LumAboveHalf(pixels) == 2 * SumL(pixels) > FullScale * Len(pixels)

Dark == "#000000"
Light == "#FFFFFF"

(***************************************************************************)
(* The settings document.                                                  *)
(***************************************************************************)
DefaultKeys == {"backgroundImage", "foreground", "colorScheme", "font"}

InitVal == [k \in DefaultKeys |->
              CASE k = "backgroundImage" -> OldPath
                [] k = "foreground" -> "#123456"
                [] k = "colorScheme" -> "Campbell"
                [] OTHER -> "Consolas"]

DefaultsObjs == {[k \in S |-> InitVal[k]] : S \in SUBSET DefaultKeys}

Absent == [present |-> FALSE, obj |-> EmptyObj]
AbsentList == [present |-> FALSE, items |-> <<>>]

ProfileLists == {<<>>, <<"PowerShell">>}

TopObjs == {EmptyObj, [k \in {"theme"} |-> "dark"]}
ProfOthers == {EmptyObj, [k \in {"extra"} |-> "x"]}

\* A parsed document: its top-level members other than profiles, and profiles,
\* which is absent, a list, or an object with optional defaults and list members.
ProfilesVals ==
    {[form |-> "absent", defaults |-> Absent, list |-> AbsentList, other |-> EmptyObj]}
    \cup {[form |-> "list", defaults |-> Absent,
           list |-> [present |-> TRUE, items |-> l], other |-> EmptyObj] :
             l \in ProfileLists}
    \cup {[form |-> "object", defaults |-> d, list |-> l, other |-> o] :
             d \in {Absent} \cup {[present |-> TRUE, obj |-> x] : x \in DefaultsObjs},
             l \in {AbsentList} \cup {[present |-> TRUE, items |-> x] : x \in ProfileLists},
             o \in ProfOthers}

Docs == {[top |-> t, profiles |-> p] : t \in TopObjs, p \in ProfilesVals}

NoDoc == [top |-> EmptyObj,
          profiles |-> [form |-> "absent", defaults |-> Absent, list |-> AbsentList,
                        other |-> EmptyObj]]

\* The file: missing, text that is no JSON once de-commented, or a document,
\* with or without comments in its text.
Files ==
    {[kind |-> "missing", comments |-> FALSE, doc |-> NoDoc],
     [kind |-> "invalid", comments |-> FALSE, doc |-> NoDoc]}
    \cup {[kind |-> "json", comments |-> c, doc |-> d] : c \in BOOLEAN, d \in Docs}

\* _load_settings: read_text, comment_remover, json.loads, profiles normalisation.
\* Raises when the file is missing or does not parse.
_load_settings(f) ==
    IF f.kind # "json"
    THEN [ok |-> FALSE, data |-> NoDoc]
    ELSE [ok |-> TRUE,
          data |-> IF f.doc.profiles.form = "list"
                   THEN [f.doc EXCEPT !.profiles =
                           [form |-> "object",
                            defaults |-> [present |-> TRUE, obj |-> EmptyObj],
                            list |-> f.doc.profiles.list,
                            other |-> EmptyObj]]
                   ELSE f.doc]

\* _write_settings: json.dumps of the whole document; comments are not kept.
_write_settings(data) == [kind |-> "json", comments |-> FALSE, doc |-> data]

\* data["profiles"].setdefault("defaults", {})
SetDefault(data) ==
    IF data.profiles.defaults.present
    THEN data
    ELSE [data EXCEPT !.profiles.defaults = [present |-> TRUE, obj |-> EmptyObj]]

\* lines 161-166: compute luminance and override foreground
SetForegroundKeepsOld(defaults, path, d) ==
    IF Truthy(path) /\ PathExists(path, d)
    THEN Put(defaults, "foreground", IF LumAboveHalf(d.pixels) THEN Dark ELSE Light)
    ELSE defaults

SetForeground(defaults, path, d) ==
    IF Truthy(path) /\ PathExists(path, d)
    THEN Put(defaults, "foreground", IF LumAboveHalf(d.pixels) THEN Dark ELSE Light)
    ELSE Pop(defaults, "foreground")

\* set_background_image between _load_settings and _write_settings (lines 150-166):
\* the document to write, or ok = FALSE when it raises (KeyError 'profiles', or
\* Image.open on a file that is no image).
ApplyPatch(loaded, path, d) ==
    IF loaded.profiles.form = "absent"
    THEN [ok |-> FALSE, data |-> loaded]
    ELSE
      LET data == SetDefault(loaded)
          d1 == Pop(data.profiles.defaults.obj, "colorScheme")
          d2 == IF Truthy(path) THEN Put(d1, "backgroundImage", path)
                ELSE Pop(d1, "backgroundImage")
      IN IF Truthy(path) /\ PathExists(path, d) /\ ~d.readable
         THEN [ok |-> FALSE, data |-> loaded]
         ELSE [ok |-> TRUE,
               data |-> [data EXCEPT !.profiles.defaults.obj = SetForeground(d2, path, d)]]

ClearedKeysMissing == {"backgroundImage", "colorScheme"}

ClearedKeysExtra == {"backgroundImage", "foreground", "colorScheme", "font"}

ClearedKeys == {"backgroundImage", "foreground", "colorScheme"}

RECURSIVE PopAll(_, _)
PopAll(d, keys) ==
    IF keys = {} THEN d
    ELSE LET k == CHOOSE x \in keys : TRUE IN PopAll(Pop(d, k), keys \ {k})

\* clear between _load_settings and _write_settings (lines 174-176).
ClearPatch(loaded) ==
    IF loaded.profiles.form = "absent"
    THEN [ok |-> FALSE, data |-> loaded]
    ELSE LET data == SetDefault(loaded) IN
         [ok |-> TRUE,
          data |-> [data EXCEPT !.profiles.defaults.obj = PopAll(@, ClearedKeys)]]

\* A whole operation on file f: the new file, or ok = FALSE (it raised) and f.
Finish(f, ld, patched) ==
    IF ld.ok /\ patched.ok
    THEN [ok |-> TRUE, file |-> _write_settings(patched.data)]
    ELSE [ok |-> FALSE, file |-> f]

set_background_image(f, path, d) ==
    LET ld == _load_settings(f) IN Finish(f, ld, ApplyPatch(ld.data, path, d))

clear(f) ==
    LET ld == _load_settings(f) IN Finish(f, ld, ClearPatch(ld.data))

(***************************************************************************)
(* SpecProvider: the provider's two operations, in any sequence, on a file *)
(* that starts as any of Files.                                            *)
(***************************************************************************)
Paths == {None, EmptyPath, ImgPath}

NoOp == [name |-> "none", path |-> None, ok |-> FALSE]

OthersIdleProvider ==
    /\ run = Idle /\ file0 = Idle /\ procs = Idle /\ writes = Idle
    /\ cat = Idle /\ cres = Idle /\ txt = Idle

InitProvider ==
    /\ file \in Files
    /\ disk \in DiskStates
    /\ lastOp = NoOp
    /\ prevOp = NoOp
    /\ before = file
    /\ OthersIdleProvider

SetBackgroundImage(path) ==
    LET r == set_background_image(file, path, disk) IN
    /\ file' = r.file
    /\ before' = file
    /\ prevOp' = lastOp
    /\ lastOp' = [name |-> "apply", path |-> path, ok |-> r.ok]
    /\ UNCHANGED <<disk, run, file0, procs, writes, cat, cres, txt>>

Clear ==
    LET r == clear(file) IN
    /\ file' = r.file
    /\ before' = file
    /\ prevOp' = lastOp
    /\ lastOp' = [name |-> "clear", path |-> None, ok |-> r.ok]
    /\ UNCHANGED <<disk, run, file0, procs, writes, cat, cres, txt>>

NextProvider ==
    \/ \E path \in Paths : SetBackgroundImage(path)
    \/ Clear

SpecProvider == InitProvider /\ [][NextProvider]_vars


(***************************************************************************)
(* Text helpers: str.lower, str.title, str.isdigit, int, f"{idx:03}",      *)
(* str.split('-')[0] and the code-point order sorted() uses.               *)
(***************************************************************************)
\* The characters the model uses, in code-point order.
Alphabet == <<"-", ".", "0", "1", "2", "3", "4", "5", "6", "7", "8", "9",
              "A", "C", "E", "G", "J", "K", "L", "M", "P", "R", "U", "W",
              "a", "c", "d", "e", "g", "j", "k", "l", "m", "n", "o", "p", "r", "s", "t",
              "u", "w", "z">>

Ord(c) == CHOOSE i \in 1..Len(Alphabet) : Alphabet[i] = c

Uppers == <<"A", "C", "E", "G", "J", "K", "L", "M", "P", "R", "U", "W">>
Lowers == <<"a", "c", "e", "g", "j", "k", "l", "m", "p", "r", "u", "w">>

LowerCh(c) ==
    IF \E i \in 1..Len(Uppers) : Uppers[i] = c
    THEN Lowers[CHOOSE i \in 1..Len(Uppers) : Uppers[i] = c]
    ELSE c

UpperCh(c) ==
    IF \E i \in 1..Len(Lowers) : Lowers[i] = c
    THEN Uppers[CHOOSE i \in 1..Len(Lowers) : Lowers[i] = c]
    ELSE c

IsLetter(c) == Ord(c) > Ord("9")

Lower(s) == [i \in 1..Len(s) |-> LowerCh(s[i])]

\* str.title(): the first letter of each run of letters in upper case, the rest lower.
Title(s) ==
    [i \in 1..Len(s) |->
       IF i = 1 \/ ~IsLetter(s[i - 1]) THEN UpperCh(s[i]) ELSE LowerCh(s[i])]

DigitChars == <<"0", "1", "2", "3", "4", "5", "6", "7", "8", "9">>

IsDigitCh(c) == \E d \in 1..10 : DigitChars[d] = c

DigitVal(c) == (CHOOSE d \in 1..10 : DigitChars[d] = c) - 1

\* str.isdigit()
IsDigit(s) == s # <<>> /\ \A i \in 1..Len(s) : IsDigitCh(s[i])

\* int(k) of a string of digits
RECURSIVE ParseInt(_)
ParseInt(s) ==
    IF s = <<>> THEN 0
    ELSE 10 * ParseInt(SubSeq(s, 1, Len(s) - 1)) + DigitVal(s[Len(s)])

\* str(n)
RECURSIVE Str(_)
Str(n) ==
    IF n < 10 THEN <<DigitChars[n + 1]>>
    ELSE Append(Str(n \div 10), DigitChars[(n % 10) + 1])

PadWidth == 3

\* f"{n:03}": the decimal digits, zero-padded on the left to at least three.
Format03(n) ==
    LET ds == Str(n) IN
    IF Len(ds) >= PadWidth THEN ds
    ELSE [i \in 1..(PadWidth - Len(ds)) |-> "0"] \o ds

\* name.split('-')[0]
RECURSIVE BeforeDash(_)
BeforeDash(s) ==
    IF s = <<>> \/ Head(s) = "-" THEN <<>> ELSE <<Head(s)>> \o BeforeDash(Tail(s))

\* s < t as Python compares strings
RECURSIVE StrLess(_, _)
StrLess(s, t) ==
    IF t = <<>> THEN FALSE
    ELSE IF s = <<>> THEN TRUE
    ELSE IF Head(s) # Head(t) THEN Ord(Head(s)) < Ord(Head(t))
    ELSE StrLess(Tail(s), Tail(t))

\* sorted(): insertion into a sorted list, stable.
RECURSIVE Insert(_, _)
Insert(sortedSeq, x) ==
    IF sortedSeq = <<>> THEN <<x>>
    ELSE IF StrLess(x, Head(sortedSeq)) THEN <<x>> \o sortedSeq
    ELSE <<Head(sortedSeq)>> \o Insert(Tail(sortedSeq), x)

RECURSIVE Sorted(_)
Sorted(s) ==
    IF s = <<>> THEN <<>> ELSE Insert(Sorted(SubSeq(s, 1, Len(s) - 1)), s[Len(s)])

(***************************************************************************)
(* The Database.                                                           *)
(***************************************************************************)
NoId == <<>>                   \* Pokemon.id of an extra: None
NoRegion == "<None>"

KantoEnd == 152
JohtoEnd == 252
HoennEnd == 387
SinnohEnd == 494
UnovaEnd == 650
KalosEnd == 720

_determine_region(idx) ==
    IF idx < KantoEnd THEN "kanto"
    ELSE IF idx < JohtoEnd THEN "johto"
    ELSE IF idx < HoennEnd THEN "hoenn"
    ELSE IF idx < SinnohEnd THEN "sinnoh"
    ELSE IF idx < UnovaEnd THEN "unova"
    ELSE IF idx < KalosEnd THEN "kalos"
    ELSE NoRegion

_determine_folder(region) ==
    CASE region = "kanto" -> "Images/Generation I - Kanto"
      [] region = "johto" -> "Images/Generation II - Johto"
      [] region = "hoenn" -> "Images/Generation III - Hoenn"
      [] region = "sinnoh" -> "Images/Generation IV - Sinnoh"
      [] region = "unova" -> "Images/Generation V - Unova"
      [] region = "kalos" -> "Images/Generation VI - Kalos"
      [] OTHER -> "Images/Generation None"

JpgSuffix == <<".", "j", "p", "g">>

\* Pokemon.__init__: the name is lower-cased.
Pokemon(identifier, name, region, path, t1, t2, dark_th) ==
    [id |-> identifier, name |-> Lower(name), region |-> region, path |-> path,
     type1 |-> t1, type2 |-> t2, dark_th |-> dark_th]

NoEntry == Pokemon(NoId, <<>>, NoRegion, None, "", "", "")

EmptyDb == [list |-> <<>>, by_name |-> EmptyObj]

_register(db, poke) ==
    [list |-> Append(db.list, poke), by_name |-> Put(db.by_name, poke.name, poke)]

\* One iteration of _load_data's loop on a non-blank line: parts are the fields of
\* line.strip().split(), idx the position enumerate() gives the line.
LoadLine(db, idx, parts, d) ==
    LET rid == Format03(idx)
        region == _determine_region(idx)
        img == [dir |-> _determine_folder(region), stem |-> rid, suffix |-> JpgSuffix]
        img_path == IF PathExists(img, d) THEN img ELSE None
        t2 == IF Len(parts) > 3 THEN parts[4] ELSE ""
    IN _register(db, Pokemon(rid, parts[1], region, img_path, parts[3], t2, parts[2]))

\* _load_data from line idx on: exit (the listing is missing), raise (IndexError on
\* a line of fewer than three fields) or ok.
RECURSIVE LoadFrom(_, _, _, _)
LoadFrom(db, lines, idx, d) ==
    IF idx > Len(lines) THEN [outcome |-> "ok", db |-> db]
    ELSE IF lines[idx] = <<>> THEN LoadFrom(db, lines, idx + 1, d)
    ELSE IF Len(lines[idx]) < 3 THEN [outcome |-> "raise", db |-> db]
    ELSE LoadFrom(LoadLine(db, idx, lines[idx], d), lines, idx + 1, d)

_load_data(listing, d) ==
    IF ~listing.exists THEN [outcome |-> "exit", db |-> EmptyDb]
    ELSE LoadFrom(EmptyDb, listing.lines, 1, d)

\* One iteration of _load_extra's loop on file fn of Images/Extra.
LoadExtraFile(db, fn) ==
    IF Lower(fn.suffix) # JpgSuffix THEN db
    ELSE
      LET name == Lower(fn.stem)
          base == BeforeDash(name)
          has == base \in DOMAIN db.by_name
          parent == IF has THEN db.by_name[base] ELSE NoEntry
      IN _register(db, Pokemon(NoId, name,
                               IF has THEN parent.region ELSE NoRegion,
                               [dir |-> "Images/Extra", stem |-> fn.stem, suffix |-> fn.suffix],
                               IF has THEN parent.type1 ELSE "",
                               IF has THEN parent.type2 ELSE "",
                               IF has THEN parent.dark_th ELSE "0.5"))

\* _load_extra, with the files in the order iterdir() yields them.
RECURSIVE LoadExtraFrom(_, _)
LoadExtraFrom(db, order) ==
    IF order = <<>> THEN db
    ELSE LoadExtraFrom(LoadExtraFile(db, Head(order)), Tail(order))

_load_extra(db, extra, order) ==
    IF ~extra.exists THEN db ELSE LoadExtraFrom(db, order)

\* The orders iterdir() may yield a directory's files in.
Orders(files) ==
    {o \in [1..Cardinality(files) -> files] : \A i, j \in DOMAIN o : i # j => o[i] # o[j]}

\* Database(): _load_data, then _load_extra.
Database(listing, extra, order, d) ==
    LET r == _load_data(listing, d) IN
    IF r.outcome # "ok" THEN r
    ELSE [outcome |-> "ok", db |-> _load_extra(r.db, extra, order)]

RandomKey == <<"r", "a", "n", "d", "o", "m">>

Found(e) == [kind |-> "entry", entry |-> e]
NotFound == [kind |-> "none", entry |-> NoEntry]
GetRaised == [kind |-> "raise", entry |-> NoEntry]

\* Database.get(key): the results it can give; random.choice may pick any element
\* of _list and raises IndexError on an empty one.
get(db, key) ==
    LET k == Lower(key) IN
    IF k = RandomKey
    THEN IF db.list = <<>> THEN {GetRaised}
         ELSE {Found(db.list[i]) : i \in 1..Len(db.list)}
    ELSE IF IsDigit(k)
    THEN LET target == Format03(ParseInt(k))
             hits == {i \in 1..Len(db.list) : db.list[i].id = target}
         IN IF hits = {} THEN {NotFound}
            ELSE {Found(db.list[CHOOSE i \in hits : \A j \in hits : i <= j])}
    ELSE IF k \in DOMAIN db.by_name THEN {Found(db.by_name[k])}
    ELSE {NotFound}

\* Database.list_names()
list_names(db) == Sorted([i \in 1..Len(db.list) |-> Title(db.list[i].name)])

(***************************************************************************)
(* Claims on the provider's operations (SpecProvider).                     *)
(***************************************************************************)
DefaultsOf(f) == f.doc.profiles.defaults.obj

HasProfiles(f) == f.kind = "json" /\ f.doc.profiles.form # "absent"

\* C1: on a parseable document with a profiles member, set_background_image(path)
\* followed by clear() leaves profiles.defaults without backgroundImage, foreground
\* and colorScheme, whatever the path and whatever defaults held before.
C1_ApplyThenClearIsClean ==
    (lastOp.name = "clear" /\ prevOp.name = "apply" /\ HasProfiles(before))
    => /\ lastOp.ok
       /\ HasProfiles(file)
       /\ DOMAIN DefaultsOf(file) \cap {"backgroundImage", "foreground", "colorScheme"} = {}

C1_Witness ==
    /\ lastOp.name = "clear" /\ lastOp.ok
    /\ prevOp.name = "apply" /\ prevOp.ok /\ prevOp.path = ImgPath
    /\ {"backgroundImage", "foreground"} \subseteq DOMAIN DefaultsOf(before)
    /\ DefaultsOf(before)["backgroundImage"] = ImgPath
    /\ DOMAIN DefaultsOf(file) = {"font"}

\* The mean luminance of the image on disk is above the midpoint of the scale:
\* (sum of L over the pixels) / n > 255 / 2.
MeanAboveMidpoint ==
    2 * SumL(disk.pixels) > 255 * Len(disk.pixels)

AllPixels(px) == disk.pixels # <<>> /\ \A i \in 1..Len(disk.pixels) : disk.pixels[i] = px

\* C2: after set_background_image(path) completes: colorScheme is absent;
\* backgroundImage is path when a path is supplied and absent otherwise; foreground
\* is present exactly when the path is supplied and exists on disk, and is then
\* #000000 when the mean luminance exceeds the midpoint, #FFFFFF otherwise
\* (all-white gives dark; all-black and the exact midpoint give light).
C2_ApplyResult ==
    (lastOp.name = "apply" /\ lastOp.ok)
    => LET d == DefaultsOf(file)
           p == lastOp.path
           onDisk == Truthy(p) /\ p = ImgPath /\ disk.exists
       IN /\ HasProfiles(file)
          /\ "colorScheme" \notin DOMAIN d
          /\ Truthy(p) => ("backgroundImage" \in DOMAIN d /\ d["backgroundImage"] = p)
          /\ ~Truthy(p) => "backgroundImage" \notin DOMAIN d
          /\ ("foreground" \in DOMAIN d) <=> onDisk
          /\ onDisk =>
               /\ d["foreground"] = (IF MeanAboveMidpoint THEN "#000000" ELSE "#FFFFFF")
               /\ AllPixels(<<255, 255, 255>>) => d["foreground"] = "#000000"
               /\ AllPixels(<<0, 0, 0>>) => d["foreground"] = "#FFFFFF"
               /\ disk.pixels = <<<<127, 127, 127>>, <<128, 128, 128>>>>
                    => d["foreground"] = "#FFFFFF"

C2_Witness ==
    /\ lastOp.name = "apply" /\ lastOp.ok /\ lastOp.path = ImgPath
    /\ disk.pixels = <<<<127, 127, 127>>, <<128, 128, 128>>>>
    /\ "colorScheme" \in DOMAIN DefaultsOf(before)
    /\ DefaultsOf(file)["foreground"] = "#FFFFFF"
    /\ DefaultsOf(file)["backgroundImage"] = ImgPath

\* C3: clear() removes backgroundImage, foreground and colorScheme from
\* profiles.defaults and leaves the rest as read: the other top-level members, the
\* other keys of profiles, the profile list, and the other keys of defaults.
C3_ClearFrame ==
    (lastOp.name = "clear" /\ lastOp.ok)
    => LET old == before.doc
           new == file.doc
           kept == DOMAIN old.profiles.defaults.obj
                     \ {"backgroundImage", "foreground", "colorScheme"}
       IN /\ file.kind = "json"
          /\ new.top = old.top
          /\ new.profiles.other = old.profiles.other
          /\ new.profiles.list = old.profiles.list
          /\ new.profiles.form = "object"
          /\ DOMAIN new.profiles.defaults.obj = kept
          /\ \A k \in kept : new.profiles.defaults.obj[k] = old.profiles.defaults.obj[k]

C3_Witness ==
    /\ lastOp.name = "clear" /\ lastOp.ok
    /\ before.doc.profiles.form = "list"
    /\ before.doc.profiles.list.items = <<"PowerShell">>
    /\ before.doc.top # EmptyObj
    /\ file.doc.profiles.list.items = <<"PowerShell">>

(***************************************************************************)
(* SpecCatalog: a Database built from a listing and an Extra directory,    *)
(* then queried.                                                           *)
(***************************************************************************)
Mew == <<"m", "e", "w">>
MewCap == <<"M", "e", "w">>
Muk == <<"m", "u", "k">>

\* The fields of a listing line after strip().split(); a blank line has none.
Blank == <<>>
LineKinds == {Blank,
              <<Mew, "0.5", "psychic">>,
              <<MewCap, "0.4", "normal", "fairy">>,
              <<Muk, "0.6", "poison">>,
              <<Muk>>}

Listings ==
    {[exists |-> FALSE, lines |-> <<>>]}
    \cup {[exists |-> TRUE, lines |-> l] : l \in UNION {[1..n -> LineKinds] : n \in 0..MaxLines}}

ExtraFiles == {[stem |-> Mew, suffix |-> JpgSuffix],
               [stem |-> <<"M", "u", "k", "-", "g">>, suffix |-> <<".", "J", "P", "G">>],
               [stem |-> <<"z", "a", "p">>, suffix |-> <<".", "p", "n", "g">>]}

ExtraDirs ==
    {[exists |-> FALSE, files |-> {}]}
    \cup {[exists |-> TRUE, files |-> fs] : fs \in SUBSET ExtraFiles}

CatalogDisks == {d \in DiskStates : d.pixels \in {<<>>, <<<<255, 255, 255>>>>} /\ d.exists = d.readable}

Keys == {RandomKey, <<"1">>, <<"2">>, <<"0", "0", "2">>, <<"3">>, Mew, <<"M", "E", "W">>,
         Muk, <<"z">>}

NoCall == [op |-> "none", key |-> <<>>, result |-> NotFound, names |-> <<>>]

InitCatalog ==
    /\ disk \in CatalogDisks
    /\ cat \in {[listing |-> l, extra |-> e, built |-> FALSE, outcome |-> "none", db |-> EmptyDb] :
                   l \in Listings, e \in ExtraDirs}
    /\ cres = NoCall
    /\ file = Idle /\ lastOp = Idle /\ prevOp = Idle /\ before = Idle
    /\ run = Idle /\ file0 = Idle /\ procs = Idle /\ writes = Idle /\ txt = Idle

NotCatalog == <<file, disk, lastOp, prevOp, before, run, file0, procs, writes, txt>>

Construct ==
    /\ ~cat.built
    /\ \E order \in Orders(cat.extra.files) :
         LET r == Database(cat.listing, cat.extra, order, disk) IN
         cat' = [cat EXCEPT !.built = TRUE, !.outcome = r.outcome, !.db = r.db]
    /\ UNCHANGED <<cres, NotCatalog>>

Get(key) ==
    /\ cat.built /\ cat.outcome = "ok"
    /\ \E r \in get(cat.db, key) :
         cres' = [op |-> "get", key |-> key, result |-> r, names |-> <<>>]
    /\ UNCHANGED <<cat, NotCatalog>>

ListNames ==
    /\ cat.built /\ cat.outcome = "ok"
    /\ cres' = [op |-> "list_names", key |-> <<>>, result |-> NotFound,
                names |-> list_names(cat.db)]
    /\ UNCHANGED <<cat, NotCatalog>>

NextCatalog ==
    \/ Construct
    \/ \E key \in Keys : Get(key)
    \/ ListNames

SpecCatalog == InitCatalog /\ [][NextCatalog]_vars

IsLine(l) == l # Blank

NonEmptyLines == SelectSeq(cat.listing.lines, IsLine)

\* C7: the entry built from the k-th non-empty line has id k zero-padded to three
\* digits and the region of k, and resolve(str(k)) returns it, also when the
\* listing has blank lines between entries.
C7_IdCountsNonEmptyLines ==
    (cat.built /\ cat.outcome = "ok")
    => \A k \in 1..Len(NonEmptyLines) :
          /\ k <= Len(cat.db.list)
          /\ cat.db.list[k].name = Lower(NonEmptyLines[k][1])
          /\ cat.db.list[k].id = Format03(k)
          /\ cat.db.list[k].region = _determine_region(k)
          /\ get(cat.db, Str(k)) = {Found(cat.db.list[k])}

\* C8: name is unique across the registered entries: of two registrations with the
\* same lower-case name only the last remains, so random and numeric resolves
\* return entries that the by-name resolve returns too, and list_names() has no
\* name twice.
C8_NamesUnique ==
    (cat.built /\ cat.outcome = "ok")
    => LET db == cat.db
           names == list_names(db)
       IN /\ \A i, j \in 1..Len(db.list) : i # j => db.list[i].name # db.list[j].name
          /\ \A key \in {RandomKey, <<"1">>, <<"2">>, <<"3">>} :
                \A r \in get(db, key) :
                   r.kind = "entry" => get(db, r.entry.name) = {r}
          /\ \A i, j \in 1..Len(names) : i # j => names[i] # names[j]

(***************************************************************************)
(* SpecMain: one run of terminalChange.main().                             *)
(***************************************************************************)
ClearTokens == {<<"c", "l", "e", "a", "r">>, <<"r", "e", "s", "e", "t">>}

MainArgs == {<<"C", "l", "e", "a", "r">>, <<"r", "e", "s", "e", "t">>, RandomKey,
             <<"1">>, <<"M", "E", "W">>, <<"z">>}

MainListings ==
    {[exists |-> FALSE, lines |-> <<>>],
     [exists |-> TRUE, lines |-> <<>>],
     [exists |-> TRUE, lines |-> <<<<Muk>>>>],
     [exists |-> TRUE, lines |-> <<<<Mew, "0.5", "psychic">>>>],
     [exists |-> TRUE, lines |-> <<Blank, <<Mew, "0.5", "psychic">>>>]}

NoExtraDir == [exists |-> FALSE, files |-> {}]

MainFiles ==
    {f \in Files :
       /\ f.doc.top = EmptyObj /\ f.doc.profiles.other = EmptyObj
       /\ f.kind = "json" => f.comments
       /\ f.doc.profiles.list.items # <<>> \/ f.doc.profiles.form # "list"
       /\ f.doc.profiles.form = "object" =>
            /\ ~f.doc.profiles.list.present
            /\ DOMAIN f.doc.profiles.defaults.obj \in
                 {{}, {"colorScheme", "font"}, {"backgroundImage", "foreground"}}}

MainDisks ==
    {d \in DiskStates : d.pixels \in {<<>>, <<<<255, 255, 255>>>>, <<<<0, 0, 0>>>>}}

ArgCounts == {1, 2, 3}          \* len(sys.argv)

\* WindowsTerminalProvider.is_compatible(): "WT_SESSION" in os.environ
AlwaysCompatible(marker) == TRUE

is_compatible(marker) == marker

InitMain ==
    /\ file \in MainFiles
    /\ file0 = file
    /\ disk \in MainDisks
    /\ run \in {[argc |-> n, argv1 |-> a, marker |-> m, listing |-> l,
                  pc |-> "start", cmd |-> <<>>, db |-> EmptyDb, found |-> FALSE,
                  pkm |-> NoEntry, ok_wp |-> FALSE, os_called |-> FALSE,
                  loaded |-> FALSE, data |-> NoDoc, nwrites |-> 0,
                  end |-> "running", code |-> 0] :
                   n \in ArgCounts, a \in MainArgs, m \in BOOLEAN, l \in MainListings}
    /\ lastOp = Idle /\ prevOp = Idle /\ before = Idle
    /\ procs = Idle /\ writes = Idle /\ cat = Idle /\ cres = Idle /\ txt = Idle

NotMain == <<disk, lastOp, prevOp, before, file0, procs, writes, cat, cres, txt>>

\* sys.exit(code)
Exit(r, code) == [r EXCEPT !.pc = "ended", !.end = "exit", !.code = code]

\* An exception nothing catches: traceback, exit status 1.
Unhandled(r) == [r EXCEPT !.pc = "ended", !.end = "exception", !.code = 1]

\* lines 206-208
Usage ==
    /\ run.pc = "start" /\ run.argc # 2
    /\ run' = Exit(run, 1)
    /\ UNCHANGED <<file, NotMain>>

\* lines 210-217
Dispatch ==
    /\ run.pc = "start" /\ run.argc = 2
    /\ LET cmd == Lower(run.argv1) IN
       run' = [run EXCEPT !.cmd = cmd,
                          !.pc = IF cmd \in ClearTokens THEN "clear_load" ELSE "db"]
    /\ UNCHANGED <<file, NotMain>>

\* The run after the _load_settings call of clear() or set_background_image():
\* it goes on with the data read, or the exception leaves main().
AfterLoad(r, f, next) ==
    LET ld == _load_settings(f) IN
    IF ld.ok
    THEN [r EXCEPT !.pc = next, !.loaded = TRUE, !.data = ld.data]
    ELSE Unhandled(r)

\* line 213, clear(): fp, data = _load_settings()
ClearLoad ==
    /\ run.pc = "clear_load"
    /\ run' = AfterLoad(run, file, "clear_write")
    /\ UNCHANGED <<file, NotMain>>

\* The rest of clear(), then lines 214-215.
ClearWrite ==
    /\ run.pc = "clear_write"
    /\ LET patched == ClearPatch(run.data) IN
       IF patched.ok
       THEN /\ file' = _write_settings(patched.data)
            /\ run' = Exit([run EXCEPT !.nwrites = @ + 1], 0)
       ELSE /\ file' = file
            /\ run' = Unhandled(run)
    /\ UNCHANGED NotMain

\* line 217: db = Database()
BuildDb ==
    /\ run.pc = "db"
    /\ \E order \in Orders(NoExtraDir.files) :
         LET r == Database(run.listing, NoExtraDir, order, disk) IN
         run' = CASE r.outcome = "exit" -> Exit(run, 1)
                  [] r.outcome = "raise" -> Unhandled(run)
                  [] OTHER -> [run EXCEPT !.db = r.db, !.pc = "get"]
    /\ UNCHANGED <<file, NotMain>>

\* lines 218-224
Resolve ==
    /\ run.pc = "get"
    /\ \E r \in get(run.db, run.cmd) :
         run' = CASE r.kind = "raise" -> Unhandled(run)
                  [] r.kind = "none" -> Exit(run, 1)
                  [] OTHER -> [run EXCEPT !.found = TRUE, !.pkm = r.entry, !.pc = "wallpaper"]
    /\ UNCHANGED <<file, NotMain>>

\* What SystemParametersInfoW does: returns non-zero, returns zero, or the call raises.
OsResults == {"nonzero", "zero", "raises"}

\* WallpaperAdapter.set(path)
WallpaperSet(path, d, os) ==
    IF ~Truthy(path) \/ ~PathExists(path, d)
    THEN [ok |-> FALSE, called |-> FALSE]
    ELSE [ok |-> os = "nonzero", called |-> TRUE]

\* lines 227-228
Wallpaper ==
    /\ run.pc = "wallpaper"
    /\ \E os \in OsResults :
         LET w == WallpaperSet(run.pkm.path, disk, os) IN
         run' = [run EXCEPT !.ok_wp = w.ok, !.os_called = w.called, !.pc = "terminal"]
    /\ UNCHANGED <<file, NotMain>>

\* lines 231, 234-235
TerminalSkip ==
    /\ run.pc = "terminal" /\ ~is_compatible(run.marker)
    /\ run' = [run EXCEPT !.pc = "finish"]
    /\ UNCHANGED <<file, NotMain>>

\* lines 231-232
TerminalStart ==
    /\ run.pc = "terminal" /\ is_compatible(run.marker)
    /\ run' = [run EXCEPT !.pc = "apply_load"]
    /\ UNCHANGED <<file, NotMain>>

\* set_background_image(pkm.path): fp, data = _load_settings()
ApplyLoad ==
    /\ run.pc = "apply_load"
    /\ run' = AfterLoad(run, file, "apply_write")
    /\ UNCHANGED <<file, NotMain>>

\* The rest of set_background_image(pkm.path), then line 233.
ApplyWrite ==
    /\ run.pc = "apply_write"
    /\ LET patched == ApplyPatch(run.data, run.pkm.path, disk) IN
       IF patched.ok
       THEN /\ file' = _write_settings(patched.data)
            /\ run' = [run EXCEPT !.nwrites = @ + 1, !.pc = "finish"]
       ELSE /\ file' = file
            /\ run' = Unhandled(run)
    /\ UNCHANGED NotMain

\* line 237, then main() returns: exit status 0.
Return ==
    /\ run.pc = "finish"
    /\ run' = [run EXCEPT !.pc = "ended", !.end = "return", !.code = 0]
    /\ UNCHANGED <<file, NotMain>>

NextMain ==
    \/ Usage
    \/ Dispatch
    \/ ClearLoad
    \/ ClearWrite
    \/ BuildDb
    \/ Resolve
    \/ Wallpaper
    \/ TerminalSkip
    \/ TerminalStart
    \/ ApplyLoad
    \/ ApplyWrite
    \/ Return

SpecMain == InitMain /\ [][NextMain]_vars

\* C4: a run whose key resolved to an entry ends with a success status if the
\* wallpaper step succeeded and with a status other than success if it did not,
\* whatever the terminal step did.
C4_StatusFollowsWallpaper ==
    (run.pc = "ended" /\ run.found)
    => /\ run.ok_wp => run.code = 0
       /\ ~run.ok_wp => run.code # 0

\* C5: no run of main() ends by an unhandled exception.
C5_NoUnhandledException == run.end # "exception"

IsClearRun == run.argc = 2 /\ Lower(run.argv1) \in ClearTokens

\* C6: the settings file is written only on a clear/reset argument, or when the key
\* resolved and the terminal marker is present, and only after a successful read
\* and parse; so its content is unchanged after a wrong argument count, an
\* unresolvable key, a missing marker on a non-clear argument, or a settings file
\* that is missing or does not parse.
C6_WritesOnlyWhenDue ==
    /\ (run.nwrites > 0 \/ file # file0)
         => /\ run.loaded /\ file0.kind = "json"
            /\ IsClearRun \/ (run.found /\ run.marker)
    /\ (\/ run.argc # 2
        \/ (~IsClearRun /\ ~run.found)
        \/ (~IsClearRun /\ ~run.marker)
        \/ file0.kind # "json")
         => (file = file0 /\ run.nwrites = 0)

C6_Witness ==
    /\ run.pc = "ended" /\ run.end = "return"
    /\ run.found /\ run.marker /\ run.nwrites = 1 /\ run.loaded
    /\ file # file0
    /\ HasProfiles(file)
    /\ "backgroundImage" \in DOMAIN DefaultsOf(file)
    /\ DefaultsOf(file)["backgroundImage"] = ImgPath

(***************************************************************************)
(* SpecTwo: two instances, each one provider operation, against the same   *)
(* file. An instance reads (_load_settings) in one step and patches and    *)
(* writes (_write_settings) in another; the steps of the two interleave.   *)
(***************************************************************************)
Instances == {1, 2}

TwoFiles ==
    {f \in Files :
       /\ ~f.comments
       /\ f.doc.top = EmptyObj /\ f.doc.profiles.other = EmptyObj
       /\ f.doc.profiles.form = "object" => ~f.doc.profiles.list.present}

TwoOps == {[name |-> "clear", path |-> None],
           [name |-> "apply", path |-> None],
           [name |-> "apply", path |-> ImgPath]}

InitTwo ==
    /\ file \in TwoFiles
    /\ disk \in MainDisks
    /\ procs \in [Instances -> {[op |-> o, pc |-> "read", data |-> NoDoc, src |-> file,
                                 readAt |-> 0] : o \in TwoOps}]
    /\ writes = <<>>
    /\ lastOp = Idle /\ prevOp = Idle /\ before = Idle
    /\ run = Idle /\ file0 = Idle /\ cat = Idle /\ cres = Idle /\ txt = Idle

NotTwo == <<disk, lastOp, prevOp, before, run, file0, cat, cres, txt>>

\* fp, data = _load_settings()
Read(p) ==
    /\ procs[p].pc = "read"
    /\ LET ld == _load_settings(file) IN
       procs' = [procs EXCEPT ![p] =
                   IF ld.ok
                   THEN [@ EXCEPT !.pc = "write", !.data = ld.data, !.src = file,
                                  !.readAt = Len(writes)]
                   ELSE [@ EXCEPT !.pc = "failed"]]
    /\ UNCHANGED <<file, writes, NotTwo>>

\* The patch of the data the instance read.
Patched(pr) ==
    IF pr.op.name = "apply" THEN ApplyPatch(pr.data, pr.op.path, disk)
    ELSE ClearPatch(pr.data)

\* The patch, then _write_settings(fp, data).
Write(p) ==
    /\ procs[p].pc = "write"
    /\ LET patched == Patched(procs[p]) IN
       IF patched.ok
       THEN /\ file' = _write_settings(patched.data)
            /\ writes' = Append(writes, [who |-> p, file |-> _write_settings(patched.data)])
            /\ procs' = [procs EXCEPT ![p].pc = "done"]
       ELSE /\ UNCHANGED <<file, writes>>
            /\ procs' = [procs EXCEPT ![p].pc = "failed"]
    /\ UNCHANGED NotTwo

NextTwo == \E p \in Instances : Read(p) \/ Write(p)

SpecTwo == InitTwo /\ [][NextTwo]_vars

BothEnded == \A p \in Instances : procs[p].pc \in {"done", "failed"}

\* The operation of instance p run alone on the content p read.
AloneOnOwnRead(p) ==
    IF procs[p].op.name = "apply"
    THEN set_background_image(procs[p].src, procs[p].op.path, disk).file
    ELSE clear(procs[p].src).file

\* C10: with the read and write steps of two instances interleaved in any order,
\* the final file is exactly what the instance that wrote last wrote, computed from
\* the content that instance itself read (the last writer wins, nothing detects
\* the conflict), and in it profiles.defaults has no colorScheme and has a
\* foreground only together with a backgroundImage.
C10_LastWriterWins ==
    (BothEnded /\ writes # <<>>)
    => LET last == writes[Len(writes)] IN
       /\ file = last.file
       /\ file = AloneOnOwnRead(last.who)
       /\ HasProfiles(file)
       /\ "colorScheme" \notin DOMAIN DefaultsOf(file)
       /\ "foreground" \in DOMAIN DefaultsOf(file)
            => "backgroundImage" \in DOMAIN DefaultsOf(file)

\* Both wrote, the second writer had read before the first wrote, and the
\* backgroundImage the first one wrote is lost.
C10_Witness ==
    /\ BothEnded /\ Len(writes) = 2
    /\ procs[writes[2].who].readAt = 0
    /\ "backgroundImage" \in DOMAIN DefaultsOf(writes[1].file)
    /\ DefaultsOf(writes[1].file)["backgroundImage"] = ImgPath
    /\ "backgroundImage" \notin DOMAIN DefaultsOf(file)

(***************************************************************************)
(* comment_remover: re.sub of the pattern                                  *)
(*   //.*?$ | /\*.*?\*/ | '(?:\\.|[^\\'])*' | "(?:\\.|[^\\"])*"            *)
(* with DOTALL and MULTILINE. A match is reported by the index of its last *)
(* character, 0 when the alternative does not match at i.                  *)
(***************************************************************************)
NL == "\n"
BS == "\\"
DQ == "\""
SQ == "'"

At(text, i) == IF i >= 1 /\ i <= Len(text) THEN text[i] ELSE ""

\* //.*?$ : up to the first position where $ matches, the end of the text or
\* just before a newline.
RECURSIVE LineEnd(_, _)
LineEnd(text, j) ==
    IF j > Len(text) \/ text[j] = NL THEN j - 1 ELSE LineEnd(text, j + 1)

MatchLineComment(text, i) ==
    IF At(text, i) = "/" /\ At(text, i + 1) = "/" THEN LineEnd(text, i + 2) ELSE 0

\* /\*.*?\*/ : up to the first "*/" that starts at or after i + 2.
RECURSIVE BlockEnd(_, _)
BlockEnd(text, j) ==
    IF j + 1 > Len(text) THEN 0
    ELSE IF text[j] = "*" /\ text[j + 1] = "/" THEN j + 1
    ELSE BlockEnd(text, j + 1)

MatchBlockComment(text, i) ==
    IF At(text, i) = "/" /\ At(text, i + 1) = "*" THEN BlockEnd(text, i + 2) ELSE 0

\* (?:\\.|[^\\q])*q from j on: a backslash takes the next character with it.
RECURSIVE QuotedEnd(_, _, _)
QuotedEnd(text, j, q) ==
    IF j > Len(text) THEN 0
    ELSE IF text[j] = BS THEN (IF j + 1 > Len(text) THEN 0 ELSE QuotedEnd(text, j + 2, q))
    ELSE IF text[j] = q THEN j
    ELSE QuotedEnd(text, j + 1, q)

MatchQuotedNever(text, i, q) == 0

MatchQuoted(text, i, q) ==
    IF At(text, i) = q THEN QuotedEnd(text, i + 1, q) ELSE 0

\* The first alternative, in the pattern's order, that matches at i.
MatchAt(text, i) ==
    LET a == MatchLineComment(text, i)
        b == MatchBlockComment(text, i)
        c == MatchQuoted(text, i, SQ)
        e == MatchQuoted(text, i, DQ)
    IN IF a # 0 THEN a ELSE IF b # 0 THEN b ELSE IF c # 0 THEN c ELSE e

\* repl: a match that starts with "/" becomes one space, any other stays.
RECURSIVE SubFrom(_, _)
SubFrom(text, i) ==
    IF i > Len(text) THEN <<>>
    ELSE LET m == MatchAt(text, i) IN
         IF m = 0 THEN <<text[i]>> \o SubFrom(text, i + 1)
         ELSE (IF text[i] = "/" THEN <<" ">> ELSE SubSeq(text, i, m)) \o SubFrom(text, m + 1)

comment_remover(text) == SubFrom(text, 1)

(***************************************************************************)
(* SpecComment: texts put together from string literals, comments and      *)
(* other characters, handed to comment_remover.                            *)
(***************************************************************************)
\* A piece of text: a double-quoted string literal, a line comment with the
\* newline that ends it, a block comment, or one character that is none of these.
Piece(kind, text) == [kind |-> kind, text |-> text]

Pieces ==
    {Piece("string", <<DQ, "h", ":", "/", "/", "e", DQ>>),       \* "h://e"
     Piece("string", <<DQ, "/", "*", DQ>>),                      \* "/*"
     Piece("string", <<DQ, BS, DQ, "/", "/", DQ>>),              \* "\"//"
     Piece("string", <<DQ, SQ, DQ>>),                            \* "'"
     Piece("line", <<"/", "/", DQ, NL>>),                        \* //"
     Piece("line", <<"/", "/", SQ, "/", "*", NL>>),              \* //'/*
     Piece("block", <<"/", "*", DQ, NL, "*", "/">>),             \* /*" newline */
     Piece("block", <<"/", "*", "/", "/", SQ, "*", "/">>),       \* /*//'*/
     Piece("other", <<":">>),
     Piece("other", <<BS>>),
     Piece("other", <<NL>>),
     Piece("other", <<SQ>>)}

RECURSIVE Concat(_)
Concat(ps) == IF ps = <<>> THEN <<>> ELSE Head(ps).text \o Concat(Tail(ps))

\* What the text is to become: comments replaced by one space (the newline after a
\* line comment stays), everything else as it is.
Stripped(piece) ==
    CASE piece.kind = "line" -> <<" ", NL>>
      [] piece.kind = "block" -> <<" ">>
      [] OTHER -> piece.text

RECURSIVE Expected(_)
Expected(ps) == IF ps = <<>> THEN <<>> ELSE Stripped(Head(ps)) \o Expected(Tail(ps))

InitComment ==
    /\ txt \in {[pieces |-> ps, text |-> Concat(ps), done |-> FALSE, out |-> <<>>] :
                  ps \in UNION {[1..n -> Pieces] : n \in 0..MaxSegs}}
    /\ file = Idle /\ disk = Idle /\ lastOp = Idle /\ prevOp = Idle /\ before = Idle
    /\ run = Idle /\ file0 = Idle /\ procs = Idle /\ writes = Idle
    /\ cat = Idle /\ cres = Idle

RemoveComments ==
    /\ ~txt.done
    /\ txt' = [txt EXCEPT !.done = TRUE, !.out = comment_remover(txt.text)]
    /\ UNCHANGED <<file, disk, lastOp, prevOp, before, run, file0, procs, writes, cat, cres>>

NextComment == RemoveComments

SpecComment == InitComment /\ [][NextComment]_vars

\* C9 as stated: for every text, every double-quoted string literal comes out
\* unchanged and every comment outside a string literal is replaced.
C9_EveryText == txt.done => txt.out = Expected(txt.pieces)

NoBareApostrophe ==
    \A i \in 1..Len(txt.pieces) : txt.pieces[i] # Piece("other", <<SQ>>)

\* C9, amended: the same for every text that has no apostrophe outside its
\* double-quoted string literals and its comments.
C9_NoBareApostrophe ==
    (txt.done /\ NoBareApostrophe) => txt.out = Expected(txt.pieces)

C9_Witness ==
    /\ txt.done /\ NoBareApostrophe
    /\ Len(txt.pieces) = 3
    /\ txt.pieces[1] = Piece("string", <<DQ, "h", ":", "/", "/", "e", DQ>>)
    /\ txt.pieces[2] = Piece("line", <<"/", "/", DQ, NL>>)
    /\ txt.pieces[3] = Piece("string", <<DQ, BS, DQ, "/", "/", DQ>>)
    /\ txt.out = <<DQ, "h", ":", "/", "/", "e", DQ, " ", NL, DQ, BS, DQ, "/", "/", DQ>>

====
